---- MODULE Spec2Model ----
(***************************************************************************)
(* Model of the Teachable Machine inference server (src/server.js).        *)
(*                                                                         *)
(* State: the module-level `model` variable and the position of            *)
(* loadModel(), the metadata.json label file, the wall clock read by       *)
(* Date.now(), the uploads/ directory, and for every POST /predict         *)
(* request its req.file, the position of its async handler, the promise it *)
(* is awaiting, the responses written to res and the calls it has made.    *)
(*                                                                         *)
(* The async handler is cut at its await points: everything between two    *)
(* awaits runs to completion without interleaving (Node's event loop).     *)
(*                                                                         *)
(* The keep-alive part adds the environment (RENDER, SERVER_URL), the      *)
(* minutes elapsed since the module ran, the one-shot and the periodic     *)
(* timer, the calls of pingServer, the requests https.get issued and       *)
(* whether the process is still alive; `gets` holds the answers of GET /.  *)
(* `now` is Date.now() at millisecond grain over a short window, `clock`   *)
(* is the same time at minute grain; timers fire when they are due.        *)
(***************************************************************************)
EXTENDS Integers, Sequences, FiniteSets, TLC

\* ------------------------------------------------------------------ bounds
NReq == 2          \* number of POST /predict requests
MaxTime == 1       \* Date.now() ranges over 0..MaxTime
MaxLen == 3        \* longest score vector of the single-request specification
MaxScore == 2      \* probabilities are 0..MaxScore (scaled)
MaxClock == 30     \* minutes of process life that are followed
MaxGets == 2       \* number of GET / requests

Requests == 1..NReq

\* ------------------------------------------------------- program constants
InputSize == 224   \* tf.image.resizeBilinear(tfImage, [224, 224])
RGB == 3           \* slice(..., [h, w, 3])
RGBA == 4          \* tfImage.shape[2] === 4
firstPingDelay == 1   \* setTimeout(..., 60000), in minutes
pingInterval == 14    \* 14 * 60 * 1000 ms, in minutes

Undefined == "undefined"
LayersModel == "LayersModel"

\* response texts (server.js uses Korean strings; named here by meaning)
NoImage == "no image"
ModelNotLoaded == "model not loaded"
InferenceFailed == "inference failed"

Extensions == {".png", ".jpg"}

\* decoded shape of an uploaded file; <<>> stands for bytes that
\* tf.node.decodeImage rejects
Images == {<<>>, <<5, 5, 1>>, <<5, 5, 3>>, <<7, 5, 4>>}
\* the uploads of the concurrent specification: undecodable, grayscale, RGBA
PipeImages == {<<>>, <<5, 5, 1>>, <<7, 5, 4>>}

\* model/metadata.json: missing, present without labels, present with labels
Metadatas ==
  { [present |-> FALSE, hasLabels |-> FALSE, labels |-> <<>>],
    [present |-> TRUE,  hasLabels |-> FALSE, labels |-> <<>>],
    [present |-> TRUE,  hasLabels |-> TRUE,  labels |-> <<>>],
    [present |-> TRUE,  hasLabels |-> TRUE,  labels |-> <<"cat">>],
    [present |-> TRUE,  hasLabels |-> TRUE,  labels |-> <<"", "dog">>],
    [present |-> TRUE,  hasLabels |-> TRUE,  labels |-> <<"cat", "dog", "bird", "fish">>] }

\* the label files of the concurrent specification
PipeMetadatas ==
  {m \in Metadatas : (~m.present /\ ~m.hasLabels) \/ Len(m.labels) = 4}

RECURSIVE SeqsUpTo(_, _)
SeqsUpTo(S, n) ==
  IF n = 0 THEN {<<>>}
  ELSE LET shorter == SeqsUpTo(S, n - 1)
       IN shorter \cup {Append(s, x) : s \in {t \in shorter : Len(t) = n - 1}, x \in S}

ScoreVectors == SeqsUpTo(0..MaxScore, MaxLen)
\* the model outputs of the concurrent specification
PipeScoreVectors == {<<>>, <<1, 2>>}

VARIABLES model, loadPc, metadata, now, uploads,
          file, pc, pending, responses, trace, results, resultArray,
          env, clock, timeout, interval, created, pings, sent, outstanding,
          alive, gets

\* the keep-alive scheduler's state and the process's liveness
kaVars == <<env, clock, timeout, interval, created, pings, sent, outstanding, alive>>

vars == <<model, loadPc, metadata, now, uploads,
          file, pc, pending, responses, trace, results, resultArray,
          kaVars, gets>>

\* ------------------------------------------------------------ file system
\* uploads is a function from the paths present in uploads/ to their content
exists(path) == path \in DOMAIN uploads

writeFile(path, image) ==
  [p \in (DOMAIN uploads) \cup {path} |-> IF p = path THEN image ELSE uploads[p]]

unlink(path) ==
  [p \in (DOMAIN uploads) \ {path} |-> uploads[p]]

\* storage.filename: Date.now() + path.extname(file.originalname)
filename(ext) == <<now, ext>>

\* ------------------------------------------------------------ preprocess
NoFile == [present |-> FALSE, path |-> <<0, "">>]
Idle == [ok |-> TRUE, shape |-> <<>>, message |-> ""]
Resolved(shape) == [ok |-> TRUE, shape |-> shape, message |-> ""]
Rejected(message) == [ok |-> FALSE, shape |-> <<>>, message |-> message]

\* preprocessImage(imagePath): readFileSync, decodeImage, drop alpha,
\* resizeBilinear, div, expandDims; returns the promise's settlement
preprocessImage(imagePath) ==
  IF ~exists(imagePath) THEN Rejected("ENOENT")
  ELSE LET decoded == uploads[imagePath] IN
       IF decoded = <<>> THEN Rejected("decode")
       ELSE LET tfImage == IF decoded[3] = RGBA
                           THEN <<decoded[1], decoded[2], RGB>>
                           ELSE decoded
                resized == <<InputSize, InputSize, tfImage[3]>>
                batched == <<1>> \o resized
            IN Resolved(batched)

\* the loaded model accepts [null, 224, 224, 3] only
ModelAccepts(shape) == shape = <<1, InputSize, InputSize, RGB>>

\* ----------------------------------------------------------------- rank
DefaultClassNames == <<"class1", "class2", "class3">>

\* metadata.labels || ['class1','class2','class3'], inside try/catch
classNames ==
  IF metadata.present /\ metadata.hasLabels THEN metadata.labels
  ELSE DefaultClassNames

\* faulty variant: the synthesized name forgets the + 1
className_ZeroBased(names, index) ==
  IF index < Len(names) /\ names[index + 1] # ""
  THEN names[index + 1]
  ELSE "class" \o ToString(index)

\* classNames[index] || `class${index + 1}` (index is 0-based)
className(names, index) ==
  IF index < Len(names) /\ names[index + 1] # ""
  THEN names[index + 1]
  ELSE "class" \o ToString(index + 1)

\* Array.from(results).map(...); `index` remembers the pre-sort position
mapResults(data, names) ==
  [i \in 1..Len(data) |->
     [class |-> className(names, i - 1), probability |-> data[i], index |-> i - 1]]

\* faulty variant: the comparator's operands swapped
compare_Ascending(a, b) == a.probability - b.probability

\* (a, b) => b.probability - a.probability
compare(a, b) == b.probability - a.probability

\* faulty variant: an unstable sort, x goes before the elements it ties with
RECURSIVE insert_Unstable(_, _)
insert_Unstable(s, x) ==
  IF s = <<>> THEN <<x>>
  ELSE IF compare(s[1], x) >= 0 THEN <<x>> \o s
       ELSE <<s[1]>> \o insert_Unstable(Tail(s), x)

\* Array.prototype.sort is stable: x goes after every element that does not
\* compare greater than it
RECURSIVE insert(_, _)
insert(s, x) ==
  IF s = <<>> THEN <<x>>
  ELSE IF compare(s[1], x) > 0 THEN <<x>> \o s
       ELSE <<s[1]>> \o insert(Tail(s), x)

RECURSIVE sort(_)
sort(s) ==
  IF s = <<>> THEN <<>>
  ELSE insert(sort(SubSeq(s, 1, Len(s) - 1)), s[Len(s)])

\* what JSON.stringify keeps of a resultArray entry
Prediction(e) == [class |-> e.class, probability |-> e.probability]

\* ------------------------------------------------------------- responses
Absent == "<absent>"

ErrorResponse(status, error, details) ==
  [status |-> status, success |-> FALSE, error |-> error, details |-> details,
   predictions |-> <<>>, topPrediction |-> <<>>]

\* res.json({success: true, predictions: resultArray, topPrediction: resultArray[0]})
\* topPrediction is a sequence of at most one entry: resultArray[0] is
\* undefined for an empty array and JSON drops the field
SuccessResponse(sorted) ==
  [status |-> 200, success |-> TRUE, error |-> Absent, details |-> Absent,
   predictions |-> [i \in 1..Len(sorted) |-> Prediction(sorted[i])],
   topPrediction |-> IF sorted = <<>> THEN <<>> ELSE <<Prediction(sorted[1])>>]

\* ------------------------------------------------------------ keep-alive
\* a URL is the sequence of its pieces, so that String.includes is a search
DefaultUrl == <<"https://", "test-render-c6um.onrender.com">>

\* process.env.SERVER_URL; <<>> is unset (or empty)
ServerUrls ==
  { <<>>,
    <<"https://", "my-app.onrender.com">>,
    <<"http://", "localhost", ":10000">>,
    <<"https://", "127.0.0.1", ":10000">>,
    <<"http://", "my-app.onrender.com">> }

\* process.env.RENDER: unset, set to the empty string, set by the platform
Renders == {Undefined, "", "true"}

Envs == [RENDER : Renders, SERVER_URL : ServerUrls]

\* the environment of a machine that is not the hosting platform
PlainEnv == [RENDER |-> Undefined, SERVER_URL |-> <<>>]

\* hosted environments whose URL https.get accepts or pingServer skips
ServerEnvs ==
  {e \in Envs : e.RENDER = "true"
                 /\ e.SERVER_URL \in {<<>>, <<"http://", "localhost", ":10000">>}}

\* if (process.env.RENDER): undefined and '' are falsy
Truthy(value) == value \notin {Undefined, ""}

\* process.env.SERVER_URL || 'https://test-render-c6um.onrender.com'
serverUrl == IF env.SERVER_URL = <<>> THEN DefaultUrl ELSE env.SERVER_URL

includes(url, piece) == \E i \in 1..Len(url) : url[i] = piece

\* faulty variant: only 'localhost' is recognised
isLocal_OnlyLocalhost(url) == includes(url, "localhost")

\* serverUrl.includes('localhost') || serverUrl.includes('127.0.0.1')
isLocal(url) == includes(url, "localhost") \/ includes(url, "127.0.0.1")

\* https.get throws ERR_INVALID_PROTOCOL for a URL that is not https:
httpsAccepts(url) == url[1] = "https://"

\* faulty variant: the timer is set whatever the environment
activation_Always(e) == {firstPingDelay}

\* if (process.env.RENDER) { setTimeout(..., 60000) }: the due times of the
\* one-shot timer after the module has run
activation(e) == IF Truthy(e.RENDER) THEN {firstPingDelay} ELSE {}

\* what a call of pingServer at `clock` does: "skipped" (local address),
\* "threw" (https.get throws) or "sent"
pingServer == 
  IF isLocal(serverUrl) THEN "skipped"
  ELSE IF ~httpsAccepts(serverUrl) THEN "threw"
  ELSE "sent"

Online == [status |-> 200, body |-> "online"]

\* faulty variant: the status endpoint reports the model
statusBody_NeedsModel == IF model = Undefined THEN [status |-> 500, body |-> "offline"] ELSE Online

\* res.json({ status: 'online', message: ... })
statusBody == Online

\* ------------------------------------------------------------------ Init
InitWith(metadatas) ==
  /\ model = Undefined
  /\ loadPc = "awaitLoad"
  /\ metadata \in metadatas
  /\ now = 0
  /\ uploads = <<>>
  /\ file = [r \in Requests |-> NoFile]
  /\ pc = [r \in Requests |-> "new"]
  /\ pending = [r \in Requests |-> Idle]
  /\ responses = [r \in Requests |-> <<>>]
  /\ trace = [r \in Requests |-> <<>>]
  /\ results = [r \in Requests |-> <<>>]
  /\ resultArray = [r \in Requests |-> <<>>]
  /\ gets = <<>>

\* the module has run: the one-shot timer is set when RENDER is truthy
InitKeepAlive(envs) ==
  /\ env \in envs
  /\ clock = 0
  /\ timeout = activation(env)
  /\ interval = {}
  /\ created = 0
  /\ pings = <<>>
  /\ sent = <<>>
  /\ outstanding = 0
  /\ alive = TRUE

Init == InitWith(PipeMetadatas) /\ InitKeepAlive({PlainEnv})

InitRank == InitWith(Metadatas) /\ InitKeepAlive({PlainEnv})

InitKeepAliveOnly == InitWith({[present |-> FALSE, hasLabels |-> FALSE, labels |-> <<>>]}) /\ InitKeepAlive(Envs)

InitServer == InitWith(PipeMetadatas) /\ InitKeepAlive(ServerEnvs)

\* --------------------------------------------------------------- actions
\* model = await tf.loadLayersModel(modelPath) resolves
LoadModelResolved ==
  /\ loadPc = "awaitLoad"
  /\ model' = LayersModel
  /\ loadPc' = "done"
  /\ UNCHANGED <<metadata, now, uploads, file, pc, pending, responses, trace, results, resultArray, kaVars, gets>>

\* tf.loadLayersModel rejects: the catch block only logs
LoadModelRejected ==
  /\ loadPc = "awaitLoad"
  /\ loadPc' = "done"
  /\ UNCHANGED <<model, metadata, now, uploads, file, pc, pending, responses, trace, results, resultArray, kaVars, gets>>

\* the millisecond clock advances
Tick ==
  /\ now < MaxTime
  /\ now' = now + 1
  /\ UNCHANGED <<model, loadPc, metadata, uploads, file, pc, pending, responses, trace, results, resultArray, kaVars, gets>>

\* upload.single('image') with an image part: multer names the file, writes
\* it under uploads/ and sets req.file
UploadImage(r, ext, image) ==
  /\ pc[r] = "new"
  /\ uploads' = writeFile(filename(ext), image)
  /\ file' = [file EXCEPT ![r] = [present |-> TRUE, path |-> filename(ext)]]
  /\ pc' = [pc EXCEPT ![r] = "uploaded"]
  /\ UNCHANGED <<model, loadPc, metadata, now, pending, responses, trace, results, resultArray, kaVars, gets>>

\* upload.single('image') with no image part: req.file stays undefined
UploadNothing(r) ==
  /\ pc[r] = "new"
  /\ pc' = [pc EXCEPT ![r] = "uploaded"]
  /\ UNCHANGED <<model, loadPc, metadata, now, uploads, file, pending, responses, trace, results, resultArray, kaVars, gets>>

\* faulty variant: the catch block logs and does not respond
Catch_Silent(r, message, calls) ==
  /\ trace' = [trace EXCEPT ![r] = @ \o calls \o <<"throw">>]
  /\ pc' = [pc EXCEPT ![r] = "done"]
  /\ pending' = [pending EXCEPT ![r] = Idle]
  /\ UNCHANGED responses

\* catch (error) { res.status(500).json({error, details: error.message}) }
Catch(r, message, calls) ==
  /\ responses' = [responses EXCEPT ![r] = Append(@, ErrorResponse(500, InferenceFailed, message))]
  /\ trace' = [trace EXCEPT ![r] = @ \o calls \o <<"throw", "respond">>]
  /\ pc' = [pc EXCEPT ![r] = "done"]
  /\ pending' = [pending EXCEPT ![r] = Idle]

\* faulty variant: the `if (!model)` check is missing
HandlerStart_NoModelCheck(r) ==
  /\ pc[r] = "uploaded"
  /\ IF ~file[r].present THEN
       /\ responses' = [responses EXCEPT ![r] = Append(@, ErrorResponse(400, NoImage, Absent))]
       /\ trace' = [trace EXCEPT ![r] = @ \o <<"respond">>]
       /\ pc' = [pc EXCEPT ![r] = "done"]
       /\ UNCHANGED pending
     ELSE
       /\ pending' = [pending EXCEPT ![r] = preprocessImage(file[r].path)]
       /\ trace' = [trace EXCEPT ![r] = @ \o <<"preprocess">>]
       /\ pc' = [pc EXCEPT ![r] = "awaitPreprocess"]
       /\ UNCHANGED responses
  /\ UNCHANGED <<model, loadPc, metadata, now, uploads, file, results, resultArray, kaVars, gets>>

\* faulty variant: the two checks in the other order
HandlerStart_ModelFirst(r) ==
  /\ pc[r] = "uploaded"
  /\ IF model = Undefined THEN
       /\ responses' = [responses EXCEPT ![r] = Append(@, ErrorResponse(500, ModelNotLoaded, Absent))]
       /\ trace' = [trace EXCEPT ![r] = @ \o <<"respond">>]
       /\ pc' = [pc EXCEPT ![r] = "done"]
       /\ UNCHANGED pending
     ELSE IF ~file[r].present THEN
       /\ responses' = [responses EXCEPT ![r] = Append(@, ErrorResponse(400, NoImage, Absent))]
       /\ trace' = [trace EXCEPT ![r] = @ \o <<"respond">>]
       /\ pc' = [pc EXCEPT ![r] = "done"]
       /\ UNCHANGED pending
     ELSE
       /\ pending' = [pending EXCEPT ![r] = preprocessImage(file[r].path)]
       /\ trace' = [trace EXCEPT ![r] = @ \o <<"preprocess">>]
       /\ pc' = [pc EXCEPT ![r] = "awaitPreprocess"]
       /\ UNCHANGED responses
  /\ UNCHANGED <<model, loadPc, metadata, now, uploads, file, results, resultArray, kaVars, gets>>

\* handler entry up to `await preprocessImage(req.file.path)`
HandlerStart(r) ==
  /\ pc[r] = "uploaded"
  /\ IF ~file[r].present THEN
       /\ responses' = [responses EXCEPT ![r] = Append(@, ErrorResponse(400, NoImage, Absent))]
       /\ trace' = [trace EXCEPT ![r] = @ \o <<"respond">>]
       /\ pc' = [pc EXCEPT ![r] = "done"]
       /\ UNCHANGED pending
     ELSE IF model = Undefined THEN
       /\ responses' = [responses EXCEPT ![r] = Append(@, ErrorResponse(500, ModelNotLoaded, Absent))]
       /\ trace' = [trace EXCEPT ![r] = @ \o <<"respond">>]
       /\ pc' = [pc EXCEPT ![r] = "done"]
       /\ UNCHANGED pending
     ELSE
       /\ pending' = [pending EXCEPT ![r] = preprocessImage(file[r].path)]
       /\ trace' = [trace EXCEPT ![r] = @ \o <<"preprocess">>]
       /\ pc' = [pc EXCEPT ![r] = "awaitPreprocess"]
       /\ UNCHANGED responses
  /\ UNCHANGED <<model, loadPc, metadata, now, uploads, file, results, resultArray, kaVars, gets>>

\* resumption after `await preprocessImage`, then model.predict(imageTensor);
\* threw = TRUE is the model throwing internally
AfterPreprocess(r, threw) ==
  /\ pc[r] = "awaitPreprocess"
  /\ IF ~pending[r].ok THEN
       /\ ~threw
       /\ Catch(r, pending[r].message, <<>>)
     ELSE IF ~ModelAccepts(pending[r].shape) THEN
       /\ ~threw
       /\ Catch(r, "shape", <<"predict">>)
     ELSE IF threw THEN
       Catch(r, "predict", <<"predict">>)
     ELSE
       /\ trace' = [trace EXCEPT ![r] = @ \o <<"predict">>]
       /\ pc' = [pc EXCEPT ![r] = "awaitPredict"]
       /\ pending' = [pending EXCEPT ![r] = Idle]
       /\ UNCHANGED responses
  /\ UNCHANGED <<model, loadPc, metadata, now, uploads, file, results, resultArray, kaVars, gets>>

\* faulty variant: the handler disposes of the shared model after predicting
AfterPredict_DisposesModel(r) ==
  /\ pc[r] = "awaitPredict"
  /\ trace' = [trace EXCEPT ![r] = @ \o <<"data">>]
  /\ pc' = [pc EXCEPT ![r] = "awaitData"]
  /\ model' = Undefined
  /\ UNCHANGED <<loadPc, metadata, now, uploads, file, pending, responses, results, resultArray, kaVars, gets>>

\* resumption after `await model.predict(...)`: predictions.data() is called
AfterPredict(r) ==
  /\ pc[r] = "awaitPredict"
  /\ trace' = [trace EXCEPT ![r] = @ \o <<"data">>]
  /\ pc' = [pc EXCEPT ![r] = "awaitData"]
  /\ UNCHANGED <<model, loadPc, metadata, now, uploads, file, pending, responses, results, resultArray, kaVars, gets>>

\* predictions.data() rejects
DataRejected(r) ==
  /\ pc[r] = "awaitData"
  /\ Catch(r, "data", <<>>)
  /\ UNCHANGED <<model, loadPc, metadata, now, uploads, file, results, resultArray, kaVars, gets>>

\* faulty variant: res.json before fs.unlinkSync
DataResolved_RespondFirst(r, data) ==
  /\ pc[r] = "awaitData"
  /\ LET sorted == sort(mapResults(data, classNames)) IN
     /\ results' = [results EXCEPT ![r] = data]
     /\ resultArray' = [resultArray EXCEPT ![r] = sorted]
     /\ pc' = [pc EXCEPT ![r] = "done"]
     /\ UNCHANGED pending
     /\ IF exists(file[r].path) THEN
          /\ uploads' = unlink(file[r].path)
          /\ responses' = [responses EXCEPT ![r] = Append(@, SuccessResponse(sorted))]
          /\ trace' = [trace EXCEPT ![r] = @ \o <<"rank", "respond", "unlink">>]
        ELSE
          /\ responses' = [responses EXCEPT ![r] = Append(@, SuccessResponse(sorted))]
          /\ trace' = [trace EXCEPT ![r] = @ \o <<"rank", "respond", "throw">>]
          /\ UNCHANGED uploads
  /\ UNCHANGED <<model, loadPc, metadata, now, file, kaVars, gets>>

\* predictions.data() resolves with `results`: map, sort, unlinkSync, res.json
DataResolved(r, data) ==
  /\ pc[r] = "awaitData"
  /\ LET sorted == sort(mapResults(data, classNames)) IN
     /\ results' = [results EXCEPT ![r] = data]
     /\ resultArray' = [resultArray EXCEPT ![r] = sorted]
     /\ IF exists(file[r].path) THEN
          /\ uploads' = unlink(file[r].path)
          /\ responses' = [responses EXCEPT ![r] = Append(@, SuccessResponse(sorted))]
          /\ trace' = [trace EXCEPT ![r] = @ \o <<"rank", "unlink", "respond">>]
          /\ pc' = [pc EXCEPT ![r] = "done"]
          /\ UNCHANGED pending
        ELSE
          /\ Catch(r, "ENOENT", <<"rank">>)
          /\ UNCHANGED uploads
  /\ UNCHANGED <<model, loadPc, metadata, now, file, kaVars, gets>>

Next ==
  \/ LoadModelResolved
  \/ LoadModelRejected
  \/ Tick
  \/ \E r \in Requests, ext \in Extensions, image \in PipeImages : UploadImage(r, ext, image)
  \/ \E r \in Requests : UploadNothing(r)
  \/ \E r \in Requests : HandlerStart(r)
  \/ \E r \in Requests, threw \in BOOLEAN : AfterPreprocess(r, threw)
  \/ \E r \in Requests : AfterPredict(r)
  \/ \E r \in Requests : DataRejected(r)
  \/ \E r \in Requests, data \in PipeScoreVectors : DataResolved(r, data)

\* concurrent requests, few inputs
Spec == Init /\ [][Next]_vars

\* one request, every image, label file and score vector
NextRank ==
  \/ LoadModelResolved
  \/ LoadModelRejected
  \/ Tick
  \/ \E ext \in Extensions, image \in Images : UploadImage(1, ext, image)
  \/ UploadNothing(1)
  \/ HandlerStart(1)
  \/ \E threw \in BOOLEAN : AfterPreprocess(1, threw)
  \/ AfterPredict(1)
  \/ DataRejected(1)
  \/ \E data \in ScoreVectors : DataResolved(1, data)

SpecRank == InitRank /\ [][NextRank]_vars

\* ----------------------------------------------------- keep-alive actions
pipeVars == <<model, loadPc, metadata, now, uploads,
              file, pc, pending, responses, trace, results, resultArray>>

Due == timeout \cup interval

\* time passes: to the next due timer, or by a minute when none is set
AdvanceClock ==
  /\ clock < MaxClock
  /\ clock \notin Due
  /\ clock' = IF \E t \in Due : t <= MaxClock
              THEN CHOOSE t \in Due : \A u \in Due : t <= u
              ELSE clock + 1
  /\ UNCHANGED <<pipeVars, env, timeout, interval, created, pings, sent, outstanding, alive, gets>>

\* the effect of pingServer() on the probe records; an exception that leaves
\* a timer callback is uncaught and ends the process, timers included
Ping(rearmed) ==
  /\ pings' = Append(pings, clock)
  /\ IF pingServer = "sent"
     THEN sent' = Append(sent, clock) /\ outstanding' = outstanding + 1
     ELSE UNCHANGED <<sent, outstanding>>
  /\ IF pingServer = "threw"
     THEN alive' = FALSE /\ interval' = {} /\ UNCHANGED created
     ELSE /\ alive' = TRUE
          /\ interval' = {clock + pingInterval}
          /\ created' = IF rearmed THEN created ELSE created + 1

\* the setTimeout callback: pingServer(), then setInterval(pingServer, pingInterval)
TimeoutFires ==
  /\ alive
  /\ clock \in timeout
  /\ timeout' = {}
  /\ Ping(FALSE)
  /\ UNCHANGED <<pipeVars, env, clock, gets>>

\* the setInterval callback: pingServer(); the timer is set again
IntervalFires ==
  /\ alive
  /\ clock \in interval
  /\ Ping(TRUE)
  /\ UNCHANGED <<pipeVars, env, clock, timeout, gets>>

ProbeOutcomes == {"200", "503", "error"}

\* the response callback or the 'error' listener of a probe: both only log
ProbeSettled(outcome) ==
  /\ alive
  /\ outstanding > 0
  /\ outstanding' = outstanding - 1
  /\ UNCHANGED <<pipeVars, env, clock, timeout, interval, created, pings, sent, alive, gets>>

\* app.get('/')
GetRoot ==
  /\ alive
  /\ Len(gets) < MaxGets
  /\ gets' = Append(gets, statusBody)
  /\ UNCHANGED <<pipeVars, kaVars>>

\* the scheduler alone, in every environment
NextKeepAlive ==
  \/ AdvanceClock
  \/ TimeoutFires
  \/ IntervalFires
  \/ \E outcome \in ProbeOutcomes : ProbeSettled(outcome)

SpecKeepAlive == InitKeepAliveOnly /\ [][NextKeepAlive]_vars

\* the whole server on the hosting platform: model load, requests with one
\* kind of upload, GET / and the scheduler
NextServer ==
  \/ LoadModelResolved
  \/ LoadModelRejected
  \/ \E r \in Requests : UploadImage(r, ".png", <<5, 5, 3>>)
  \/ \E r \in Requests : HandlerStart(r)
  \/ \E r \in Requests : AfterPreprocess(r, FALSE)
  \/ \E r \in Requests : AfterPredict(r)
  \/ \E r \in Requests : DataResolved(r, <<1, 2>>)
  \/ GetRoot
  \/ AdvanceClock
  \/ TimeoutFires
  \/ IntervalFires
  \/ \E outcome \in ProbeOutcomes : ProbeSettled(outcome)

SpecServer == InitServer /\ [][NextServer]_vars


\* ------------------------------------------------------------ vocabulary
Positions(r, call) == {i \in 1..Len(trace[r]) : trace[r][i] = call}
Called(r, call) == Positions(r, call) # {}
InFlight(r) == pc[r] \notin {"new", "done"}
Done(r) == pc[r] = "done"
Succeeded(r) == Done(r) /\ responses[r] # <<>> /\ responses[r][1].success
ModelNotLoadedResponse == ErrorResponse(500, ModelNotLoaded, Absent)
NoImageResponse == ErrorResponse(400, NoImage, Absent)

\* C1: every finished request that had an uploaded file has deleted it
\* exactly once.
C1_DeletedExactlyOnce ==
  \A r \in Requests :
    (Done(r) /\ file[r].present) => Cardinality(Positions(r, "unlink")) = 1

\* C2: whenever no request is in flight, uploads/ holds as many files as at
\* start (none).
C2_ScratchDrained ==
  (\A r \in Requests : ~InFlight(r)) => Cardinality(DOMAIN uploads) = 0

\* C3: two requests in flight at the same time never hold the same upload
\* path.
C3_PathRequestScoped ==
  \A r1, r2 \in Requests :
    (r1 # r2 /\ InFlight(r1) /\ InFlight(r2) /\ file[r1].present /\ file[r2].present)
      => file[r1].path # file[r2].path

\* C4: a handler that starts with an image while `model` is undefined answers
\* 500 'model not loaded' and finishes at once, having called neither
\* preprocess nor predict; a finished request makes no further call.
C4_ModelAbsentStep ==
  \A r \in Requests :
    /\ (pc[r] = "uploaded" /\ pc'[r] # "uploaded" /\ file[r].present /\ model = Undefined)
         => /\ pc'[r] = "done"
            /\ responses'[r] = <<ModelNotLoadedResponse>>
            /\ trace'[r] = <<"respond">>
    /\ Done(r) => (trace'[r] = trace[r] /\ responses'[r] = responses[r])

C4_ModelAbsent == [][C4_ModelAbsentStep]_vars

C4_Witness ==
  \E r \in Requests :
    /\ Done(r) /\ file[r].present
    /\ responses[r] = <<ModelNotLoadedResponse>>
    /\ model = Undefined /\ loadPc = "done"

\* C5: a handler that starts without an uploaded file answers 400 'no image'
\* whatever `model` is, calls nothing else, leaves uploads/ alone and is
\* finished for good.
C5_NoImageStep ==
  \A r \in Requests :
    /\ (pc[r] = "uploaded" /\ pc'[r] # "uploaded" /\ ~file[r].present)
         => /\ pc'[r] = "done"
            /\ responses'[r] = <<NoImageResponse>>
            /\ trace'[r] = <<"respond">>
            /\ uploads' = uploads
    /\ (Done(r) /\ ~file[r].present)
         => (trace'[r] = trace[r] /\ responses'[r] = responses[r] /\ pc'[r] = "done")

C5_NoImage == [][C5_NoImageStep]_vars

C5_Witness ==
  \E r \in Requests :
    /\ Done(r) /\ ~file[r].present
    /\ responses[r] = <<NoImageResponse>>
    /\ model = LayersModel

\* C6: no request is answered twice, a finished request has exactly one
\* response and an unfinished one none, and a request in which preprocess,
\* predict, data() or the ranking block threw is finished with the single
\* response 500 'inference failed' whose details is the error's message.
C6_OneResponse ==
  \A r \in Requests :
    /\ Len(responses[r]) <= 1
    /\ Done(r) <=> Len(responses[r]) = 1
    /\ Called(r, "throw")
         => /\ Done(r)
            /\ responses[r][1].status = 500
            /\ responses[r][1].error = InferenceFailed
            /\ responses[r][1].details \in {"ENOENT", "decode", "shape", "predict", "data"}
            /\ ~responses[r][1].success

C6_Witness ==
  \E r1, r2 \in Requests :
    /\ r1 # r2
    /\ Called(r1, "throw") /\ responses[r1][1].details = "data"
    /\ Called(r2, "throw") /\ responses[r2][1].details = "decode"

\* C7: whenever a request deletes its file it has already responded.
C7_RespondBeforeDelete ==
  \A r \in Requests :
    \A i \in Positions(r, "unlink") : \E j \in Positions(r, "respond") : j < i


\* --------------------------------------------------- ranking vocabulary
Occurrences(seq, v) == Cardinality({i \in 1..Len(seq) : seq[i] = v})
Probabilities(predictions) == [i \in 1..Len(predictions) |-> predictions[i].probability]
Values(seq) == {seq[i] : i \in 1..Len(seq)}
\* the label file's labels, none when there is no usable label file
Labels == IF metadata.present /\ metadata.hasLabels THEN metadata.labels ELSE <<>>
Synthesized(i) == "class" \o ToString(i + 1)
UniqueMaxAt(scores, m) ==
  /\ m \in 0..(Len(scores) - 1)
  /\ \A j \in 0..(Len(scores) - 1) : j # m => scores[j + 1] < scores[m + 1]
\* the response lists resultArray, whose entries are the input scores at
\* their original indices, each index once
FromInput(r) ==
  /\ Len(resultArray[r]) = Len(results[r])
  /\ responses[r][1].predictions =
       [k \in 1..Len(resultArray[r]) |-> Prediction(resultArray[r][k])]
  /\ {resultArray[r][k].index : k \in 1..Len(resultArray[r])} = 0..(Len(results[r]) - 1)
  /\ \A k \in 1..Len(resultArray[r]) :
       resultArray[r][k].probability = results[r][resultArray[r][k].index + 1]

\* C8: a success response for a score vector of length L >= 1 lists L
\* predictions whose probabilities are a permutation of the scores, in
\* non-increasing order, and topPrediction is the first of them.
C8_RankedDescending ==
  \A r \in Requests :
    (Succeeded(r) /\ Len(results[r]) >= 1) =>
      LET predictions == responses[r][1].predictions
          p == Probabilities(predictions)
      IN /\ Len(predictions) = Len(results[r])
         /\ \A v \in Values(results[r]) \cup Values(p) :
              Occurrences(p, v) = Occurrences(results[r], v)
         /\ \A i \in 1..(Len(p) - 1) : p[i] >= p[i + 1]
         /\ responses[r][1].topPrediction = <<predictions[1]>>

C8_Witness ==
  \E r \in Requests :
    /\ Succeeded(r) /\ results[r] = <<0, 2, 1>>
    /\ Probabilities(responses[r][1].predictions) = <<2, 1, 0>>

\* C9 as stated: the class of the score at original index i is labels[i] when
\* i < len(labels) and class{i+1} otherwise, and the top prediction of a
\* vector with a unique maximum at m carries the class of index m.
ClassByIndex(expected(_)) ==
  \A r \in Requests :
    Succeeded(r) =>
      /\ FromInput(r)
      /\ \A k \in 1..Len(resultArray[r]) :
           resultArray[r][k].class = expected(resultArray[r][k].index)
      /\ \A m \in 0..(Len(results[r]) - 1) :
           UniqueMaxAt(results[r], m)
             => responses[r][1].topPrediction[1].class = expected(m)

StatedClass(i) == IF i < Len(Labels) THEN Labels[i + 1] ELSE Synthesized(i)

C9_ClassByIndexAsStated == ClassByIndex(StatedClass)

\* C9 amended: the class is labels[i] when i < len(labels) and labels[i] is
\* not the empty string, and class{i+1} otherwise.
AmendedClass(i) ==
  IF i < Len(Labels) /\ Labels[i + 1] # "" THEN Labels[i + 1] ELSE Synthesized(i)

C9_ClassByIndex == ClassByIndex(AmendedClass)

C9_Witness ==
  \E r \in Requests :
    /\ Succeeded(r) /\ results[r] = <<2, 1, 0>>
    /\ metadata.labels = <<"", "dog">>
    /\ responses[r][1].topPrediction[1].class = "class1"
    /\ responses[r][1].predictions[2].class = "dog"
    /\ responses[r][1].predictions[3].class = "class3"

\* C10: predictions with equal probability appear in ascending order of
\* their original index.
C10_TiesByIndex ==
  \A r \in Requests :
    Succeeded(r) =>
      /\ FromInput(r)
      /\ \A k, l \in 1..Len(resultArray[r]) :
           (k < l /\ resultArray[r][k].probability = resultArray[r][l].probability)
             => resultArray[r][k].index < resultArray[r][l].index

C10_Witness ==
  \E r \in Requests :
    /\ Succeeded(r) /\ results[r] = <<1, 2, 1>>
    /\ metadata.labels = <<"cat", "dog", "bird", "fish">>
    /\ responses[r][1].predictions[2].class = "cat"
    /\ responses[r][1].predictions[3].class = "bird"


\* C11: a request whose model output is the empty score vector ends with a
\* 5xx error response, never with a success response without a top
\* prediction.
C11_EmptyScoresIsError ==
  \A r \in Requests :
    (Done(r) /\ Called(r, "rank") /\ results[r] = <<>>)
      => /\ ~responses[r][1].success
         /\ responses[r][1].status >= 500

\* --------------------------------------------------- server vocabulary
LoadFailed == loadPc = "done" /\ model = Undefined
MarkerPresent == Truthy(env.RENDER)
PublicAddress == ~(includes(serverUrl, "localhost") \/ includes(serverUrl, "127.0.0.1"))
ProbeTime(k) == firstPingDelay + k * pingInterval

\* C12: once the model load has failed the model stays absent and the load
\* is never started again, the process stays alive, every GET / is answered
\* 200 online and every /predict handler that starts with an image answers
\* 500 'model not loaded'.
C12_LoadFailureStep ==
  /\ LoadFailed => (LoadFailed' /\ alive')
  /\ (LoadFailed /\ gets' # gets) => gets' = Append(gets, Online)
  /\ \A r \in Requests :
       (LoadFailed /\ pc[r] = "uploaded" /\ pc'[r] # "uploaded" /\ file[r].present)
         => (responses'[r] = <<ModelNotLoadedResponse>> /\ pc'[r] = "done")

C12_LoadFailure == [][C12_LoadFailureStep]_vars

C12_Witness ==
  /\ LoadFailed
  /\ gets # <<>>
  /\ \A r \in Requests : Done(r) /\ responses[r] = <<ModelNotLoadedResponse>>
  /\ Len(pings) >= 2

\* C13: without the platform marker no timer is ever set and pingServer is
\* never called, however long the process runs.
C13_InertWithoutMarker ==
  ~MarkerPresent =>
    /\ timeout = {} /\ interval = {} /\ created = 0
    /\ pings = <<>> /\ sent = <<>> /\ outstanding = 0

C13_Witness == env.RENDER = Undefined /\ clock = 20

\* C14: with the marker present and a public address, probe k fires at
\* 60 s + k * 14 min and at no other time, every probe that is due has
\* fired, and exactly one periodic timer is created, by the first probe.
C14_ProbeSchedule ==
  (MarkerPresent /\ PublicAddress) =>
    /\ \A k \in 1..Len(pings) : pings[k] = ProbeTime(k - 1)
    /\ \A k \in 0..MaxClock : clock > ProbeTime(k) => Len(pings) >= k + 1
    /\ created = IF pings = <<>> THEN 0 ELSE 1

\* C15: once the first probe has fired the periodic timer is armed and the
\* process alive, whatever happened to the probes so far.
C15_ScheduleSurvives ==
  (MarkerPresent /\ pings # <<>>) => (alive /\ interval # {})

\* C16: when the address contains 'localhost' or '127.0.0.1' no outbound
\* request is ever issued, whichever timers fire.
C16_NoProbeWhenLocal ==
  (includes(serverUrl, "localhost") \/ includes(serverUrl, "127.0.0.1"))
    => (sent = <<>> /\ outstanding = 0)

C16_Witness ==
  /\ includes(serverUrl, "127.0.0.1")
  /\ Len(pings) >= 2
  /\ sent = <<>>

\* C17: the model changes only once, from undefined to the loaded model, in
\* the step that completes loadModel; no other step (request handling, GET /,
\* timers, probes) changes the model, and no step changes the label file.
C17_WriteOnceStep ==
  /\ metadata' = metadata
  /\ model # Undefined => model' = model
  /\ model' # model => (loadPc = "awaitLoad" /\ loadPc' = "done" /\ pc' = pc /\ pings' = pings)
  /\ loadPc = "done" => loadPc' = "done"

C17_WriteOnce == [][C17_WriteOnceStep]_vars

C17_Witness ==
  /\ model = LayersModel
  /\ \A r \in Requests : Succeeded(r)
  /\ sent # <<>>

\* C18: preprocess yields [1,224,224,3] for a decoded image of 3 or 4
\* channels, fails for any other channel count, and never yields a tensor
\* whose last dimension is not 3.
C18_PreprocessShape ==
  \A r \in Requests :
    (pc[r] = "awaitPreprocess" /\ exists(file[r].path)) =>
      LET decoded == uploads[file[r].path] IN
        /\ (decoded # <<>> /\ decoded[3] \in {RGB, RGBA})
             => (pending[r].ok /\ pending[r].shape = <<1, InputSize, InputSize, RGB>>)
        /\ (decoded # <<>> /\ decoded[3] \notin {RGB, RGBA}) => ~pending[r].ok
        /\ pending[r].ok => pending[r].shape[4] = RGB

\* C19: a request that was answered with success has unlinked its file once,
\* before responding; a request whose ranking was done and whose unlink
\* threw is answered 500 'inference failed' and nothing else.
C19_SuccessAfterDelete ==
  \A r \in Requests :
    /\ Succeeded(r) =>
         /\ Cardinality(Positions(r, "unlink")) = 1
         /\ \A i \in Positions(r, "unlink") : \A j \in Positions(r, "respond") : i < j
         /\ ~exists(file[r].path) \/ \E q \in Requests : q # r /\ file[q] = file[r]
    /\ (Called(r, "rank") /\ ~Called(r, "unlink")) =>
         /\ Done(r)
         /\ responses[r] = <<ErrorResponse(500, InferenceFailed, "ENOENT")>>

C19_Witness ==
  \E r, q \in Requests :
    /\ Succeeded(q) /\ file[q] = file[r] /\ q # r
    /\ Called(r, "rank") /\ ~Called(r, "unlink")
    /\ responses[r] = <<ErrorResponse(500, InferenceFailed, "ENOENT")>>

====
